---- MODULE Spec2Model ----
(***************************************************************************)
(* A model of the generic weighted graph of graph/graph.go, its four       *)
(* searches (BFS, DFS, Dijkstra, AStar) and the priority queue of the      *)
(* helpers package.                                                        *)
(*                                                                         *)
(* Keys are helpers.Coordinate values, written <<X, Y>>.  float64 costs    *)
(* are modelled by integers (every weight and heuristic value drawn here   *)
(* is integral).  A Node's Parent (a *Node) is modelled by the Key of the  *)
(* node it points to, or NoParent for nil: the code reads a parent only    *)
(* through Parent == nil and Parent.Key.                                   *)
(***************************************************************************)
EXTENDS Integers, Sequences, FiniteSets, TLC

VARIABLES
    Nodes,       \* g.Nodes: Key -> Node
    Edges,       \* g.Edges: Key -> (Key -> weight)
    Name,        \* g.Name
    IsDirected,  \* g.IsDirected
    pc,          \* where the running search call is: idle, loop, range, done
    call,        \* the running (or last) search call: alg, start, end, heuristic
    visited,     \* the search's local visited map (its key set)
    frontier,    \* the local queue of BFS, the local stack of DFS
    pqueue,      \* the local pq of Dijkstra and AStar
    node,        \* the search's local node (the key popped last)
    todo,        \* keys of g.Edges[node] the range loop has not yet yielded
    result,      \* what the last search call returned to the caller
    prev,        \* what the caller kept from the search call before that
    fresh        \* TRUE when the last API call made on the graph was ResetNodes

vars == <<Nodes, Edges, Name, IsDirected, pc, call, visited, frontier, pqueue, node,
          todo, result, prev, fresh>>

graphVars == <<Nodes, Edges, Name, IsDirected>>
searchVars == <<call, visited, frontier, pqueue, node, todo>>

-----------------------------------------------------------------------------
(* Bounds *)

\* Edge weights are drawn from 0..MaxWeight, the cells of the matrices of
\* SpecGraph from 1..MaxWeight.
MaxWeight == 2

\* Heuristic values other than exact distances are at most MaxH.
MaxH == 1

\* A PriorityQueue used on its own holds at most MaxQueue items.
MaxQueue == 4

\* Minimax is called with a depth of at most MaxDepth, on game states whose
\* evaluations are in 0..MaxEval.
MaxDepth == 3
MaxEval == 2

\* The keys the API calls are given: the cells of a 1 x 3 grid.
Keys == {<<0, 0>>, <<0, 1>>, <<0, 2>>}

\* The keys of the graphs that are searched: the cells of a 2 x 3 grid.
GridKeys == {<<0, 0>>, <<0, 1>>, <<0, 2>>, <<1, 0>>, <<1, 1>>, <<1, 2>>}

Weights == 0..MaxWeight

NoParent == <<>>
NoEdge == -1
Sentinel == -1

-----------------------------------------------------------------------------
(* Finite maps *)

Restrict(f, S) == [x \in S |-> f[x]]

Put(f, k, v) == [x \in (DOMAIN f) \cup {k} |-> IF x = k THEN v ELSE f[x]]

Delete(f, k) == Restrict(f, (DOMAIN f) \ {k})

EmptyMap == <<>>

-----------------------------------------------------------------------------
(* Graph: construction, mutation and queries, as functions of the fields *)

NewNode(k, v) == [Key |-> k, Value |-> v, CurrentCost |-> 0, Parent |-> NoParent]

ContainsNode(N, k) == k \in DOMAIN N

LengthNodes(N) == Cardinality(DOMAIN N)

\* AddNode that inserts nothing.
AddNodeOpNone(N, k, v) == N

\* AddNode that stores the new node whether or not the key is present.
AddNodeOpOverwrite(N, k, v) == Put(N, k, NewNode(k, v))

AddNodeOp(N, k, v) == IF k \in DOMAIN N THEN N ELSE Put(N, k, NewNode(k, v))

RemoveNodeNodes(N, k) == IF ContainsNode(N, k) THEN Delete(N, k) ELSE N

\* RemoveNode without the scan of the other keys' inner maps.
RemoveNodeEdgesNoScan(N, E, k) == IF ContainsNode(N, k) THEN Delete(E, k) ELSE E

\* RemoveNode without the delete of the key's own inner map.
RemoveNodeEdgesKeepOwn(N, E, k) ==
    IF ContainsNode(N, k) THEN [e \in DOMAIN E |-> Delete(E[e], k)] ELSE E

RemoveNodeEdges(N, E, k) ==
    IF ContainsNode(N, k)
    THEN [e \in (DOMAIN E) \ {k} |-> Delete(E[e], k)]
    ELSE E

AddEdgeHalf(E, k1, k2, weight) ==
    Put(E, k1, Put(IF k1 \in DOMAIN E THEN E[k1] ELSE EmptyMap, k2, weight))

\* AddEdge without the mirrored entry of an undirected graph.
AddEdgeOpOneWay(N, E, directed, k1, k2, weight) ==
    IF k1 \in DOMAIN N /\ k2 \in DOMAIN N THEN AddEdgeHalf(E, k1, k2, weight) ELSE E

\* AddEdge without the test that both keys are in g.Nodes.
AddEdgeOpUnguarded(N, E, directed, k1, k2, weight) ==
    LET E1 == AddEdgeHalf(E, k1, k2, weight)
    IN  IF ~directed THEN AddEdgeHalf(E1, k2, k1, weight) ELSE E1

\* AddEdge as its doc comment words it: an edge that exists is left alone.
AddEdgeOpKeep(N, E, directed, k1, k2, weight) ==
    IF k1 \in DOMAIN N /\ k2 \in DOMAIN N /\ ~(k1 \in DOMAIN E /\ k2 \in DOMAIN E[k1])
    THEN LET E1 == AddEdgeHalf(E, k1, k2, weight)
         IN  IF ~directed THEN AddEdgeHalf(E1, k2, k1, weight) ELSE E1
    ELSE E

AddEdgeOp(N, E, directed, k1, k2, weight) ==
    IF k1 \in DOMAIN N /\ k2 \in DOMAIN N
    THEN LET E1 == AddEdgeHalf(E, k1, k2, weight)
         IN  IF ~directed THEN AddEdgeHalf(E1, k2, k1, weight) ELSE E1
    ELSE E

RemoveEdgeHalf(E, k1, k2) ==
    IF k1 \in DOMAIN E THEN Put(E, k1, Delete(E[k1], k2)) ELSE E

\* RemoveEdge that deletes the mirrored entry on a directed graph too.
RemoveEdgeOpBoth(E, directed, k1, k2) ==
    RemoveEdgeHalf(RemoveEdgeHalf(E, k1, k2), k2, k1)

RemoveEdgeOp(E, directed, k1, k2) ==
    LET E1 == RemoveEdgeHalf(E, k1, k2)
    IN  IF ~directed THEN RemoveEdgeHalf(E1, k2, k1) ELSE E1

GetEdgeWeight(E, k1, k2) ==
    IF k1 \in DOMAIN E /\ k2 \in DOMAIN E[k1] THEN E[k1][k2] ELSE NoEdge

ContainsEdge(E, directed, k1, k2) ==
    \/ k1 \in DOMAIN E /\ k2 \in DOMAIN E[k1]
    \/ ~directed /\ k2 \in DOMAIN E /\ k1 \in DOMAIN E[k2]

RECURSIVE SumLen(_, _)
SumLen(E, S) ==
    IF S = {} THEN 0
    ELSE LET e == CHOOSE x \in S : TRUE
         IN  Cardinality(DOMAIN E[e]) + SumLen(E, S \ {e})

LengthEdges(E) == SumLen(E, DOMAIN E)

\* ResetNodes without `node.Parent = nil`.
ResetNodesOpCostOnly(N) == [k \in DOMAIN N |-> [N[k] EXCEPT !.CurrentCost = 0]]

ResetNodesOp(N) ==
    [k \in DOMAIN N |-> [N[k] EXCEPT !.CurrentCost = 0, !.Parent = NoParent]]

\* The adjacency the searches range over: the keys of g.Edges[k] (a nil map
\* when k has no inner map).
Adj(E, k) == IF k \in DOMAIN E THEN DOMAIN E[k] ELSE {}

-----------------------------------------------------------------------------
(* Paths and distances in a graph, by exhaustive enumeration: what the       *)
(* results of the searches are compared with                                 *)

NoDist == NoEdge

MinOf(S) == CHOOSE x \in S : \A y \in S : x <= y

MaxOf(S) == CHOOSE x \in S : \A y \in S : x >= y

\* The cost of the edge k -> m: its weight, or 1 when edges are counted.
StepCost(E, unit, k, m) == IF unit THEN 1 ELSE GetEdgeWeight(E, k, m)

\* The costs of all the paths a -> ... -> b that pass through no key twice and
\* through no key of seen.
RECURSIVE PathCosts(_, _, _, _, _, _)
PathCosts(N, E, unit, a, b, seen) ==
    IF a = b THEN {0}
    ELSE UNION {{StepCost(E, unit, a, m) + c :
                    c \in PathCosts(N, E, unit, m, b, seen \cup {m})} :
                m \in (Adj(E, a) \cap DOMAIN N) \ seen}

\* The least cost of a path a -> ... -> b (NoDist: there is none).
LeastCost(N, E, unit, a, b) ==
    LET costs == PathCosts(N, E, unit, a, b, {a})
    IN  IF costs = {} THEN NoDist ELSE MinOf(costs)

\* The least total weight, and the least number of edges, of a path a -> b.
MinWeight(N, E, a, b) == LeastCost(N, E, FALSE, a, b)

GraphDistance(N, E, a, b) == LeastCost(N, E, TRUE, a, b)

Reachable(N, E, a, b) == a \in DOMAIN N /\ b \in DOMAIN N /\ GraphDistance(N, E, a, b) # NoDist

\* path is a sequence of keys from a to b along edges of E.
IsPath(E, path, a, b) ==
    /\ Len(path) >= 1
    /\ path[1] = a
    /\ path[Len(path)] = b
    /\ \A i \in 1..(Len(path) - 1) : path[i + 1] \in Adj(E, path[i])

RECURSIVE PathWeightFrom(_, _, _)
PathWeightFrom(E, path, i) ==
    IF i >= Len(path) THEN 0
    ELSE GetEdgeWeight(E, path[i], path[i + 1]) + PathWeightFrom(E, path, i + 1)

PathWeight(E, path) == PathWeightFrom(E, path, 1)

\* h never overestimates the cost to end, and obeys the triangle inequality
\* along every edge.
Admissible(N, E, h, end) ==
    \A k \in DOMAIN N : MinWeight(N, E, k, end) # NoDist => h[k] <= MinWeight(N, E, k, end)

Consistent(N, E, h, end) ==
    /\ h[end] = 0
    /\ \A u \in DOMAIN N : \A v \in Adj(E, u) : h[u] <= GetEdgeWeight(E, u, v) + h[v]

\* The perfect heuristic: the least cost to end (for a key that end cannot be
\* reached from, the greatest such cost).
ExactH(N, E, end) ==
    LET far == MaxOf({0} \cup {MinWeight(N, E, k, end) : k \in DOMAIN N})
    IN  [k \in GridKeys |->
            IF k \in DOMAIN N /\ MinWeight(N, E, k, end) # NoDist
            THEN MinWeight(N, E, k, end) ELSE far]

-----------------------------------------------------------------------------
(* NewGraphFromMatrix *)

\* The four orthogonal directions, whatever allowDiagonal.
GetGridDirectionsOrtho(allowDiagonal) ==
    << <<0, -1>>, <<1, 0>>, <<0, 1>>, <<-1, 0>> >>

GetGridDirections(allowDiagonal) ==
    IF allowDiagonal
    THEN << <<0, -1>>, <<1, 0>>, <<0, 1>>, <<-1, 0>>,
            <<-1, -1>>, <<1, -1>>, <<1, 1>>, <<-1, 1>> >>
    ELSE << <<0, -1>>, <<1, 0>>, <<0, 1>>, <<-1, 0>> >>

\* A matrix is a sequence of rows; cell (i, j) of the code is matrix[i+1][j+1].
Cell(matrix, i, j) == matrix[i + 1][j + 1]

\* One pass of the body of the loop over the directions, for cell (i, j) and
\* direction dir, on the graph g = [Nodes, Edges].
MatrixDirStep(g, matrix, i, j, dir) ==
    LET ni == i + dir[1]
        nj == j + dir[2]
        k1 == <<i, j>>
        k2 == <<ni, nj>>
    IN  IF /\ ni >= 0 /\ ni < Len(matrix) /\ nj >= 0 /\ nj < Len(matrix[1])
           /\ Cell(matrix, ni, nj) # Sentinel
        THEN LET N1 == IF k2 \notin DOMAIN g.Nodes
                       THEN AddNodeOp(g.Nodes, k2, Cell(matrix, ni, nj))
                       ELSE g.Nodes
             IN  IF Cell(matrix, ni, nj) = Sentinel \/ Cell(matrix, i, j) = Sentinel
                 THEN [Nodes |-> N1, Edges |-> g.Edges]
                 ELSE [Nodes |-> N1,
                       Edges |-> AddEdgeOp(N1,
                                    AddEdgeOp(N1, g.Edges, FALSE, k1, k2, Cell(matrix, ni, nj)),
                                    FALSE, k2, k1, Cell(matrix, i, j))]
        ELSE g

\* e, once x has been evaluated. TLC leaves the argument of an operator
\* unevaluated until it is used, and a loop written as a recursion would build
\* the whole chain of its passes before computing the first; the loops below
\* compute the graph after each pass.
Strict(x, e) == IF x = x THEN e ELSE e

RECURSIVE MatrixDirs(_, _, _, _, _, _)
MatrixDirs(g, matrix, i, j, dirs, d) ==
    IF d > Len(dirs) THEN g
    ELSE LET g1 == MatrixDirStep(g, matrix, i, j, dirs[d])
         IN  Strict(g1, MatrixDirs(g1, matrix, i, j, dirs, d + 1))

RECURSIVE MatrixCells(_, _, _, _, _)
MatrixCells(g, matrix, dirs, i, j) ==
    IF i >= Len(matrix) THEN g
    ELSE IF j >= Len(matrix[i + 1]) THEN MatrixCells(g, matrix, dirs, i + 1, 0)
    ELSE LET g1 == [Nodes |-> AddNodeOp(g.Nodes, <<i, j>>, Cell(matrix, i, j)),
                    Edges |-> g.Edges]
             g2 == MatrixDirs(g1, matrix, i, j, dirs, 1)
         IN  Strict(g2, MatrixCells(g2, matrix, dirs, i, j + 1))

NewGraphFromMatrix(matrix, allowDiagonal) ==
    MatrixCells([Nodes |-> EmptyMap, Edges |-> EmptyMap], matrix,
                GetGridDirections(allowDiagonal), 0, 0)

\* The matrices the graph of SpecGraph may be imported from: 1 x 3, cells a
\* positive weight or the sentinel.
CellValues == (1..MaxWeight) \cup {Sentinel}

SmallMatrices == {<< <<a, b, c>> >> : a \in CellValues, b \in CellValues, c \in CellValues}

-----------------------------------------------------------------------------
(* helpers.PriorityQueue: a binary heap kept by container/heap, here a        *)
(* sequence of items [Value, Priority] with the root at index 1               *)

Item(value, priority) == [Value |-> value, Priority |-> priority]

Less(pq, i, j) == pq[i].Priority < pq[j].Priority

Swap(pq, i, j) == [pq EXCEPT ![i] = pq[j], ![j] = pq[i]]

\* heap.up: sift the item at j towards the root while it is less than its parent.
RECURSIVE HeapUp(_, _)
HeapUp(pq, j) ==
    LET i == j \div 2
    IN  IF j = 1 \/ ~Less(pq, j, i) THEN pq ELSE HeapUp(Swap(pq, i, j), i)

\* heap.down that compares the item at i with its left child only, and goes
\* down one level.
HeapDownLeft(pq, i, n) ==
    IF 2 * i > n \/ ~Less(pq, 2 * i, i) THEN pq ELSE Swap(pq, i, 2 * i)

\* heap.down: sift the item at i towards the leaves, within the first n items.
RECURSIVE HeapDown(_, _, _)
HeapDown(pq, i, n) ==
    LET j1 == 2 * i
        j  == IF j1 + 1 <= n /\ Less(pq, j1 + 1, j1) THEN j1 + 1 ELSE j1
    IN  IF j1 > n THEN pq
        ELSE IF ~Less(pq, j, i) THEN pq
        ELSE HeapDown(Swap(pq, i, j), j, n)

PushItem(pq, value, priority) ==
    HeapUp(Append(pq, Item(value, priority)), Len(pq) + 1)

\* heap.Pop: swap the root with the last item, sift down among the others, and
\* take the last item off.  PopAfter is the queue left, PopValue the payload.
PopSifted(pq) == HeapDown(Swap(pq, 1, Len(pq)), 1, Len(pq) - 1)

PopAfter(pq) == SubSeq(PopSifted(pq), 1, Len(pq) - 1)

PopValue(pq) == PopSifted(pq)[Len(pq)].Value

-----------------------------------------------------------------------------
(* The searches *)

Algs == {"BFS", "DFS", "Dijkstra", "AStar"}

UsesQueue(alg) == alg \in {"Dijkstra", "AStar"}

ErrNone == "nil"
ErrNodeNotFound == "start or end node not in graph"
ErrNoPath == "no path found"

Nil == <<>>

\* A heuristic is given by its values heuristic(k, end) for the call's end.
ConstH(c) == [k \in GridKeys |-> c]

ZeroH == ConstH(0)

NoCall == [alg |-> "none", start |-> NoParent, end |-> NoParent, h |-> ZeroH,
           afterReset |-> FALSE]

NoResult == [call |-> NoCall, path |-> Nil, visited |-> Nil, err |-> "none"]

\* constructPath: follow Parent from k, prepending.  A key that is not in
\* g.Nodes makes g.Nodes[k].Parent dereference nil (a panic); a cycle of
\* parents never ends: a walk that has taken as many steps as g.Nodes has
\* keys is on a cycle.
RECURSIVE ConstructPathFrom(_, _, _, _)
ConstructPathFrom(N, k, path, fuel) ==
    IF k \notin DOMAIN N THEN [out |-> "panic", path |-> Nil]
    ELSE IF N[k].Parent = NoParent THEN [out |-> "ok", path |-> <<k>> \o path]
    ELSE IF fuel = 0 THEN [out |-> "hang", path |-> Nil]
    ELSE ConstructPathFrom(N, N[k].Parent, <<k>> \o path, fuel - 1)

\* constructPath without the append that follows its loop: the key whose
\* Parent is nil is left out.
constructPathLoopOnly(N, k) ==
    LET cp == ConstructPathFrom(N, k, <<>>, Cardinality(DOMAIN N))
    IN  IF cp.out = "ok" THEN [out |-> "ok", path |-> Tail(cp.path)] ELSE cp

constructPath(N, k) == ConstructPathFrom(N, k, <<>>, Cardinality(DOMAIN N))

\* helpers.MapKeysToSlice: the keys of the map, in the order the range yields.
RECURSIVE SlicesOf(_)
SlicesOf(S) ==
    IF S = {} THEN {<<>>}
    ELSE UNION {{<<k>> \o rest : rest \in SlicesOf(S \ {k})} : k \in S}

\* MapKeysToSlice with a slice made with the length of the map, not only its
\* capacity: as many zero keys as the map has keys, then the keys.
MapKeysToSliceZeros(m) ==
    {[i \in 1..Cardinality(m) |-> <<0, 0>>] \o s : s \in SlicesOf(m)}

MapKeysToSlice(m) == SlicesOf(m)

\* The search returns (path, visited, err) to its caller; its locals are gone.
Return(N, path, vis, err) ==
    /\ pc' = "done"
    /\ Nodes' = N
    /\ result' = [call |-> call, path |-> path, visited |-> vis, err |-> err]
    /\ call' = NoCall
    /\ visited' = {}
    /\ frontier' = <<>>
    /\ pqueue' = <<>>
    /\ node' = NoParent
    /\ todo' = {}

\* The search goes on: at the head of the loop over the frontier when the
\* range over g.Edges[node] has yielded every key, inside the range otherwise.
Continue(N, vis, fr, q, nd, td) ==
    /\ pc' = IF td = {} THEN "loop" ELSE "range"
    /\ Nodes' = N
    /\ visited' = vis
    /\ frontier' = fr
    /\ pqueue' = q
    /\ node' = nd
    /\ todo' = td
    /\ UNCHANGED <<call, result>>

\* The search does not return: a nil dereference (panic) or an endless loop (hang).
Abort(N, out) ==
    /\ pc' = out
    /\ Nodes' = N
    /\ UNCHANGED <<call, result, visited, frontier, pqueue, node, todo>>

\* The search found end: path reconstruction, then the return.
Found(N, k, vis) ==
    LET cp == constructPath(N, k)
    IN  IF cp.out = "ok"
        THEN \E vs \in MapKeysToSlice(vis) : Return(N, cp.path, vs, ErrNone)
        ELSE Abort(N, cp.out)

\* BFS, DFS, Dijkstra, AStar up to the first loop: the start == end and
\* ContainsNode checks, and the initial visited set and frontier.
SearchCall(alg, start, end, h) ==
    LET c == [alg |-> alg, start |-> start, end |-> end, h |-> h, afterReset |-> fresh]
    IN  /\ pc \in {"idle", "done"}
        /\ fresh' = FALSE
        /\ UNCHANGED <<Edges, Name, IsDirected>>
        /\ IF start = end
           THEN /\ pc' = "done"
                /\ result' = [call |-> c, path |-> <<start>>, visited |-> <<start>>,
                              err |-> ErrNone]
                /\ UNCHANGED <<Nodes, call, visited, frontier, pqueue, node, todo>>
           ELSE IF ~ContainsNode(Nodes, start) \/ ~ContainsNode(Nodes, end)
           THEN /\ pc' = "done"
                /\ result' = [call |-> c, path |-> Nil, visited |-> Nil,
                              err |-> ErrNodeNotFound]
                /\ UNCHANGED <<Nodes, call, visited, frontier, pqueue, node, todo>>
           ELSE /\ pc' = "loop"
                /\ call' = c
                /\ result' = NoResult
                /\ node' = NoParent
                /\ todo' = {}
                /\ IF UsesQueue(alg)
                   THEN /\ visited' = {}
                        /\ frontier' = <<>>
                        /\ pqueue' = PushItem(<<>>, start, 0)
                        /\ Nodes' = [Nodes EXCEPT ![start].CurrentCost = 0]
                   ELSE /\ visited' = {start}
                        /\ frontier' = <<start>>
                        /\ pqueue' = <<>>
                        /\ Nodes' = Nodes

\* The key BFS takes off its queue (the first) and DFS off its stack (the
\* last), and what is left.
TakeLast(alg, fr) == [key |-> fr[Len(fr)], rest |-> SubSeq(fr, 1, Len(fr) - 1)]

\* The key at the head of the frontier, the frontier left as it was.
TakeNone(alg, fr) == [key |-> Head(fr), rest |-> fr]

Take(alg, fr) ==
    IF alg = "BFS" THEN [key |-> Head(fr), rest |-> Tail(fr)] ELSE TakeLast(alg, fr)

\* A visited test that never holds.
IsVisitedNever(vis, k) == FALSE

\* `visited[node]`, `visited[neighbor]`
IsVisited(vis, k) == k \in vis

\* The test for the goal, with the call's start in the place of its end.
AtStart(c, k) == k = c.start

\* The test `neighbor == end` (BFS, DFS) and `node == end` (Dijkstra, AStar).
AtEnd(c, k) == k = c.end

\* The head of the loop over the frontier: BFS takes the first key of its
\* queue, DFS the last of its stack, Dijkstra and AStar pop the priority queue
\* and skip a key already visited.
LoopStep ==
    /\ pc = "loop"
    /\ UNCHANGED <<Edges, Name, IsDirected, fresh, prev>>
    /\ IF Len(IF UsesQueue(call.alg) THEN pqueue ELSE frontier) = 0
       THEN Return(Nodes, Nil, Nil, ErrNoPath)
       ELSE IF ~UsesQueue(call.alg)
       THEN LET t == Take(call.alg, frontier)
            IN  Continue(Nodes, visited, t.rest, pqueue, t.key, Adj(Edges, t.key))
       ELSE LET n == PopValue(pqueue)
                rest == PopAfter(pqueue)
            IN  IF IsVisited(visited, n)
                THEN Continue(Nodes, visited, frontier, rest, n, {})
                ELSE IF AtEnd(call, n)
                THEN Found(Nodes, n, visited \cup {n})
                ELSE Continue(Nodes, visited \cup {n}, frontier, rest, n, Adj(Edges, n))

\* The Parent of neighbor set by storing a new node under its key.
SetParentNewNode(N, neighbor, nd) ==
    [N EXCEPT ![neighbor] = [NewNode(neighbor, 0) EXCEPT !.Parent = nd]]

\* `g.Nodes[neighbor].Parent = g.Nodes[node]` of BFS and DFS.
SetParent(N, neighbor, nd) == [N EXCEPT ![neighbor].Parent = nd]

\* What Dijkstra and AStar compare and store for neighbor.
NewCost(N, E, c, n, neighbor) ==
    IF c.alg = "AStar"
    THEN N[n].CurrentCost + GetEdgeWeight(E, n, neighbor) + c.h[neighbor]
    ELSE N[n].CurrentCost + GetEdgeWeight(E, n, neighbor)

\* The relaxation test without its comparison of costs.
ImprovesOnce(N, neighbor, newCost) == N[neighbor].Parent = NoParent

\* `g.Nodes[neighbor].Parent == nil || newCost < g.Nodes[neighbor].CurrentCost`
Improves(N, neighbor, newCost) ==
    N[neighbor].Parent = NoParent \/ newCost < N[neighbor].CurrentCost

\* One pass of the body of `for neighbor := range g.Edges[node]`, the range
\* yielding any key it has not yet yielded.
RangeStep ==
    /\ pc = "range"
    /\ UNCHANGED <<Edges, Name, IsDirected, fresh, prev>>
    /\ \E neighbor \in todo :
        LET rest == todo \ {neighbor}
        IN  IF IsVisited(visited, neighbor)
            THEN Continue(Nodes, visited, frontier, pqueue, node, rest)
            ELSE IF neighbor \notin DOMAIN Nodes
            THEN Abort(Nodes, "panic")
            ELSE IF ~UsesQueue(call.alg)
            THEN LET N1 == SetParent(Nodes, neighbor, node)
                 IN  IF AtEnd(call, neighbor)
                     THEN Found(N1, neighbor, visited \cup {neighbor})
                     ELSE Continue(N1, visited \cup {neighbor},
                                   Append(frontier, neighbor), pqueue, node, rest)
            ELSE LET newCost == NewCost(Nodes, Edges, call, node, neighbor)
                 IN  IF Improves(Nodes, neighbor, newCost)
                     THEN Continue([Nodes EXCEPT ![neighbor].CurrentCost = newCost,
                                                 ![neighbor].Parent = node],
                                   visited, frontier, PushItem(pqueue, neighbor, newCost),
                                   node, rest)
                     ELSE Continue(Nodes, visited, frontier, pqueue, node, rest)

-----------------------------------------------------------------------------
(* The API calls as actions.  A call is made only while no search is running. *)

\* What the callers pass: a node value, and two edge weights, so that an
\* overwritten weight shows.
ValueInputs == {1}
WeightInputs == {1, 2}

Callable == pc \in {"idle", "done"}

AddNode(k, v) ==
    /\ Callable
    /\ Nodes' = AddNodeOp(Nodes, k, v)
    /\ fresh' = FALSE
    /\ pc' = "idle"
    /\ result' = NoResult
    /\ UNCHANGED <<Edges, Name, IsDirected, call, visited, frontier, pqueue, node, todo, prev>>

RemoveNode(k) ==
    /\ Callable
    /\ Nodes' = RemoveNodeNodes(Nodes, k)
    /\ Edges' = RemoveNodeEdges(Nodes, Edges, k)
    /\ fresh' = FALSE
    /\ pc' = "idle"
    /\ result' = NoResult
    /\ UNCHANGED <<Name, IsDirected, call, visited, frontier, pqueue, node, todo, prev>>

AddEdge(k1, k2, weight) ==
    /\ Callable
    /\ Edges' = AddEdgeOp(Nodes, Edges, IsDirected, k1, k2, weight)
    /\ fresh' = FALSE
    /\ pc' = "idle"
    /\ result' = NoResult
    /\ UNCHANGED <<Nodes, Name, IsDirected, call, visited, frontier, pqueue, node, todo, prev>>

RemoveEdge(k1, k2) ==
    /\ Callable
    /\ Edges' = RemoveEdgeOp(Edges, IsDirected, k1, k2)
    /\ fresh' = FALSE
    /\ pc' = "idle"
    /\ result' = NoResult
    /\ UNCHANGED <<Nodes, Name, IsDirected, call, visited, frontier, pqueue, node, todo, prev>>

\* ResetNodes; the caller still holds what the last search returned.
ResetNodes ==
    /\ Callable
    /\ Nodes' = ResetNodesOp(Nodes)
    /\ fresh' = TRUE
    /\ pc' = "idle"
    /\ UNCHANGED <<Edges, Name, IsDirected, call, visited, frontier, pqueue, node, todo>>

InitSearch ==
    /\ pc = "idle"
    /\ call = NoCall
    /\ visited = {}
    /\ frontier = <<>>
    /\ pqueue = <<>>
    /\ node = NoParent
    /\ todo = {}
    /\ result = NoResult
    /\ prev = NoResult
    /\ fresh = FALSE

InitNew ==
    /\ Nodes = EmptyMap
    /\ Edges = EmptyMap
    /\ Name = "g"
    /\ IsDirected \in BOOLEAN

InitMatrix(matrices) ==
    \E matrix \in matrices, allowDiagonal \in BOOLEAN :
        LET g == NewGraphFromMatrix(matrix, allowDiagonal)
        IN  /\ Nodes = g.Nodes
            /\ Edges = g.Edges
            /\ Name = "grid"
            /\ IsDirected = FALSE

-----------------------------------------------------------------------------
(* SpecGraph: a graph from New or NewGraphFromMatrix under any sequence of    *)
(* AddNode, RemoveNode, AddEdge, RemoveEdge and ResetNodes calls              *)

InitGraph == (InitNew \/ InitMatrix(SmallMatrices)) /\ InitSearch

\* The pairs of keys AddEdge and RemoveEdge are given: every pair of two keys,
\* and one pair of a key with itself.
EdgeInputs == {p \in Keys \X Keys : p[1] # p[2] \/ p[1] = <<0, 0>>}

NextGraph ==
    \/ \E k \in Keys, v \in ValueInputs : AddNode(k, v)
    \/ \E k \in Keys : RemoveNode(k)
    \/ \E p \in EdgeInputs, w \in WeightInputs : AddEdge(p[1], p[2], w)
    \/ \E p \in EdgeInputs : RemoveEdge(p[1], p[2])
    \/ ResetNodes /\ UNCHANGED <<result, prev>>

SpecGraph == InitGraph /\ [][NextGraph]_vars

-----------------------------------------------------------------------------
(* Spec: the same graph under any sequence of API calls, the searches         *)
(* included; a search is called as the contract of ResetNodes asks, right     *)
(* after ResetNodes.  AStar is given the heuristic of TestSearch's failed     *)
(* search, the constant 1.                                                    *)

OneH == ConstH(1)

\* The matrices the graph of Spec may be imported from: cells 1 or the sentinel.
TinyMatrices == {<< <<a, b, c>> >> : a \in {1, Sentinel}, b \in {1, Sentinel}, c \in {1, Sentinel}}

Init == (InitNew \/ InitMatrix(TinyMatrices)) /\ InitSearch

Search ==
    \E alg \in Algs, start \in Keys, end \in Keys :
        /\ fresh
        /\ SearchCall(alg, start, end, IF alg = "AStar" THEN OneH ELSE ZeroH)
        /\ prev' = prev

Next ==
    \/ \E k \in Keys, v \in ValueInputs : AddNode(k, v)
    \/ \E k \in Keys : RemoveNode(k)
    \/ \E k1 \in Keys : \E k2 \in Keys \ {k1}, w \in WeightInputs : AddEdge(k1, k2, w)
    \/ \E k1 \in Keys : \E k2 \in Keys \ {k1} : RemoveEdge(k1, k2)
    \/ ResetNodes /\ result' = NoResult /\ prev' = prev
    \/ Search
    \/ LoopStep
    \/ RangeStep

Spec == Init /\ [][Next]_vars

-----------------------------------------------------------------------------
(* SpecSearch: a graph drawn from every graph on Keys (weights in Weights)    *)
(* or imported from a 2 x 3 matrix, on which ResetNodes and then one search   *)
(* is called, again and again                                                 *)

Pairs(S) == {p \in S \X S : p[1] # p[2]}

\* The edges a weight matrix W stands for (NoEdge: none), as AddEdge builds them.
EdgesOf(S, W) ==
    [a \in {a \in S : \E b \in S : a # b /\ W[<<a, b>>] # NoEdge} |->
        [b \in {b \in S : a # b /\ W[<<a, b>>] # NoEdge} |-> W[<<a, b>>]]]

Symmetric(S, W) == \A p \in Pairs(S) : W[p] = W[<<p[2], p[1]>>]

InitInstance ==
    \E S \in SUBSET Keys :
        \E W \in [Pairs(S) -> Weights \cup {NoEdge}], directed \in BOOLEAN :
            /\ ~directed => Symmetric(S, W)
            /\ Nodes = [k \in S |-> NewNode(k, 0)]
            /\ Edges = EdgesOf(S, W)
            /\ Name = "g"
            /\ IsDirected = directed

\* The matrices a searched graph may be imported from: 2 x 3, the cells 1, 3
\* or the sentinel.
GridCells == {Sentinel, 1, 3}

GridMatrices ==
    {<< <<a, b, c>>, <<d, e, f>> >> : a \in GridCells, b \in GridCells, c \in GridCells,
                                      d \in GridCells, e \in GridCells, f \in GridCells}

InitGrid ==
    \E matrix \in GridMatrices :
        LET g == NewGraphFromMatrix(matrix, FALSE)
        IN  /\ Nodes = g.Nodes
            /\ Edges = g.Edges
            /\ Name = "grid"
            /\ IsDirected = FALSE

SearchStart == <<0, 0>>
SearchEnds == {<<0, 0>>, <<0, 2>>}

\* The heuristics AStar is called with: every function that is 0 or MaxH on
\* each of Keys, the constants up to MaxH (the constant 1 is that of
\* TestSearch) and the perfect heuristic.
Heuristics(end) ==
    {h \in [GridKeys -> {0, MaxH}] : \A k \in GridKeys \ Keys : h[k] = 0}
        \cup {ConstH(c) : c \in 0..MaxH} \cup {ExactH(Nodes, Edges, end)}

SearchFresh ==
    /\ fresh
    /\ Callable
    /\ \E alg \in Algs, end \in SearchEnds :
      \E h \in IF alg = "AStar" THEN Heuristics(end) ELSE {ZeroH} :
        /\ SearchCall(alg, SearchStart, end, h)
        /\ prev' = prev

NextSearch ==
    \/ ResetNodes /\ result' = NoResult /\ prev' = prev
    \/ SearchFresh
    \/ LoopStep
    \/ RangeStep

InitSearchable == (InitInstance \/ InitGrid) /\ InitSearch

SpecSearch == InitSearchable /\ [][NextSearch]_vars
-----------------------------------------------------------------------------
(* FairSearch: the searches of SpecSearch on the graphs on Keys and on the    *)
(* graphs imported from a 2 x 2 matrix, a search that has been called going   *)
(* on to its next step: the calls are synchronous, and nothing but the        *)
(* search itself runs between its call and its return                         *)

SquareMatrices ==
    {<< <<a, b>>, <<c, d>> >> : a \in GridCells, b \in GridCells,
                                c \in GridCells, d \in GridCells}

InitFair == (InitInstance \/ InitMatrix(SquareMatrices)) /\ InitSearch

\* The ends of the searches: the last cell of the row of Keys, and the last
\* cell of a 2 x 2 matrix.
FairEnds == {<<0, 2>>, <<1, 1>>}

\* The heuristics AStar is called with: the constants up to MaxH and the
\* perfect heuristic.
FairHeuristics(end) == {ConstH(c) : c \in 0..MaxH} \cup {ExactH(Nodes, Edges, end)}

SearchFair ==
    /\ fresh
    /\ Callable
    /\ \E alg \in Algs, end \in FairEnds :
      \E h \in IF alg = "AStar" THEN FairHeuristics(end) ELSE {ZeroH} :
        /\ SearchCall(alg, SearchStart, end, h)
        /\ prev' = prev

NextFair ==
    \/ ResetNodes /\ result' = NoResult /\ prev' = prev
    \/ SearchFair
    \/ LoopStep
    \/ RangeStep

FairSearch == InitFair /\ [][NextFair]_vars /\ WF_vars(LoopStep) /\ WF_vars(RangeStep)

-----------------------------------------------------------------------------
(* SpecPair: as SpecSearch on the graphs on Keys, the caller keeping what the *)
(* search before the last ResetNodes returned, to compare two searches on one *)
(* graph                                                                      *)

\* Every undirected graph on all of Keys, weights in Weights.
InitPair ==
    \E W \in [Pairs(Keys) -> Weights \cup {NoEdge}] :
        /\ Symmetric(Keys, W)
        /\ Nodes = [k \in Keys |-> NewNode(k, 0)]
        /\ Edges = EdgesOf(Keys, W)
        /\ Name = "g"
        /\ IsDirected = FALSE

PairEnd == <<0, 2>>

SearchPair ==
    /\ fresh
    /\ Callable
    /\ \E alg \in Algs :
      \E h \in IF alg = "AStar" THEN Heuristics(PairEnd) ELSE {ZeroH} :
        /\ SearchCall(alg, SearchStart, PairEnd, h)
        /\ prev' = prev

NextPair ==
    \/ ResetNodes /\ prev' = result /\ result' = NoResult
    \/ SearchPair
    \/ LoopStep
    \/ RangeStep

InitCompared == InitPair /\ InitSearch

SpecPair == InitCompared /\ [][NextPair]_vars

-----------------------------------------------------------------------------
(* SpecReuse: the searches called one after the other on one graph, between   *)
(* any two keys, whether or not ResetNodes was called since the search        *)
(* before: a search may find the CurrentCost and the Parent that an earlier   *)
(* search left                                                                *)

InitReuse == InitMatrix(SmallMatrices) /\ InitSearch

\* The keys the searches are called with: the three cells of the row, which
\* are nodes, and a cell of a second row, which is not.
ReuseKeys == Keys \cup {<<1, 0>>}

SearchAny ==
    /\ Callable
    /\ \E alg \in Algs, start \in ReuseKeys, end \in ReuseKeys :
        /\ SearchCall(alg, start, end, IF alg = "AStar" THEN OneH ELSE ZeroH)
        /\ prev' = prev

NextReuse ==
    \/ ResetNodes /\ result' = NoResult /\ prev' = prev
    \/ SearchAny
    \/ LoopStep
    \/ RangeStep

SpecReuse == InitReuse /\ [][NextReuse]_vars

-----------------------------------------------------------------------------
(* SpecImport: NewGraphFromMatrix called on a matrix, one cell of its loops   *)
(* at a time, and the graph it returns searched by BFS from the first cell    *)
(* to the last                                                                *)

\* The cells of the imported matrices: the sentinel and two weights.
ImportCells == {Sentinel, 1, MaxWeight}

\* The rectangular matrices: 2 x 3.
RectMatrices ==
    {<< <<a, b, c>>, <<d, e, f>> >> : a \in ImportCells, b \in ImportCells, c \in ImportCells,
                                      d \in ImportCells, e \in ImportCells, f \in ImportCells}

\* The matrices with rows of unequal length, the first row the shorter or the
\* longer one.
RaggedMatrices ==
    {<< <<a>>, <<b, c>> >> : a \in ImportCells, b \in ImportCells, c \in ImportCells}
        \cup {<< <<a, b>>, <<c>> >> : a \in ImportCells, b \in ImportCells, c \in ImportCells}

EmptyMatrix == <<>>

\* The 5 x 5 matrix of the concrete scenario; it is not the matrix of
\* TestSearch, which differs in seven cells.
ScenarioMatrix ==
    << << 0,  1,  2, -1, -1>>,
       << 1,  0, -1,  3, -1>>,
       << 2, -1,  0,  1,  4>>,
       <<-1,  3,  1,  0,  2>>,
       <<-1, -1,  4,  2,  0>> >>

\* What NewGraphFromMatrix is called with: the matrix and allowDiagonal.
ImportInputs ==
    ((RectMatrices \cup RaggedMatrices \cup {EmptyMatrix}) \X BOOLEAN)
        \cup {<<ScenarioMatrix, FALSE>>}

\* The call of NewGraphFromMatrix, at cell (i, j) of its loops.
ImportCall(matrix, allowDiagonal) ==
    [alg |-> "NewGraphFromMatrix", matrix |-> matrix, allowDiagonal |-> allowDiagonal,
     i |-> 0, j |-> 0]

InitImport ==
    \E in \in ImportInputs :
        /\ Nodes = EmptyMap
        /\ Edges = EmptyMap
        /\ Name = "grid"
        /\ IsDirected = FALSE
        /\ pc = "import"
        /\ call = ImportCall(in[1], in[2])
        /\ visited = {}
        /\ frontier = <<>>
        /\ pqueue = <<>>
        /\ node = NoParent
        /\ todo = {}
        /\ result = NoResult
        /\ prev = NoResult
        /\ fresh = FALSE

\* `matrix[ni][nj]` is read, for some direction from cell (i, j), with nj
\* within the first row and beyond row ni: an index out of range.
IndexOutOfRange(matrix, i, j, dirs) ==
    \E d \in 1..Len(dirs) :
        LET ni == i + dirs[d][1]
            nj == j + dirs[d][2]
        IN  /\ ni >= 0 /\ ni < Len(matrix) /\ nj >= 0 /\ nj < Len(matrix[1])
            /\ nj >= Len(matrix[ni + 1])

\* One pass of the loops over i and j: the return after the last row, the
\* step to the next row after the last cell of a row, and the body for cell
\* (i, j), AddNode and then the loop over the directions.
ImportCell ==
    /\ pc = "import"
    /\ UNCHANGED <<Name, IsDirected, visited, frontier, pqueue, node, todo, result, fresh>>
    /\ LET matrix == call.matrix
           i == call.i
           j == call.j
           dirs == GetGridDirections(call.allowDiagonal)
       IN  IF i >= Len(matrix)
           THEN /\ pc' = "idle"
                /\ prev' = [call |-> call, path |-> Nil, visited |-> Nil, err |-> ErrNone]
                /\ call' = NoCall
                /\ UNCHANGED <<Nodes, Edges>>
           ELSE IF j >= Len(matrix[i + 1])
           THEN /\ call' = [call EXCEPT !.i = i + 1, !.j = 0]
                /\ UNCHANGED <<Nodes, Edges, pc, prev>>
           ELSE IF IndexOutOfRange(matrix, i, j, dirs)
           THEN /\ pc' = "panic"
                /\ UNCHANGED <<Nodes, Edges, call, prev>>
           ELSE LET g1 == [Nodes |-> AddNodeOp(Nodes, <<i, j>>, Cell(matrix, i, j)),
                           Edges |-> Edges]
                    g2 == MatrixDirs(g1, matrix, i, j, dirs, 1)
                IN  /\ Nodes' = g2.Nodes
                    /\ Edges' = g2.Edges
                    /\ call' = [call EXCEPT !.j = j + 1]
                    /\ UNCHANGED <<pc, prev>>

\* The caller holds a graph NewGraphFromMatrix returned, and what it was
\* imported from.
Imported == prev.call.alg = "NewGraphFromMatrix"

\* The last cell of the last row of matrix.
LastCell(matrix) == <<Len(matrix) - 1, Len(matrix[Len(matrix)]) - 1>>

\* ResetNodes and then BFS from the first cell to the last, as TestSearch
\* does.
SearchImported ==
    /\ fresh
    /\ Callable
    /\ Imported
    /\ Len(prev.call.matrix) > 0
    /\ SearchCall("BFS", SearchStart, LastCell(prev.call.matrix), ZeroH)
    /\ prev' = prev

NextImport ==
    \/ ImportCell
    \/ ResetNodes /\ result' = NoResult /\ prev' = prev
    \/ SearchImported
    \/ LoopStep
    \/ RangeStep

SpecImport == InitImport /\ [][NextImport]_vars

-----------------------------------------------------------------------------
(* minimax.Minimax.  A GameState is a record [value, moves]: Evaluate is      *)
(* value, GetPossibleMoves the indices of moves, MakeMove(m) the state        *)
(* moves[m], and IsTerminal holds when there is no move, as in the            *)
(* MockGameState of the test.  UndoMove does nothing to these states.         *)

GameState(value, moves) == [value |-> value, moves |-> moves]

Evaluate(state) == state.value

GetPossibleMoves(state) == DOMAIN state.moves

MakeMove(state, move) == state.moves[move]

IsTerminal(state) == Len(state.moves) = 0

max(a, b) == IF a > b THEN a ELSE b

min(a, b) == IF a < b THEN a ELSE b

\* `-1 << 31` and `1 << 31`, in an int of 64 bits.  1 << 31 is one more than
\* the greatest integer the model checker holds, so MaxScore is one less than
\* it; a score is compared with it and never added to, and every evaluation
\* is far below it.
MinScore == -2147483647 - 1
MaxScore == 2147483647

\* A cut-off after the first move, whatever the window.
CutOffAlways(alpha, beta) == TRUE

\* `if beta <= alpha { break }`
CutOff(alpha, beta) == beta <= alpha

\* ctx is "background" (never done) or "cancelled" (done before the call).
\* MinimaxMoves is the loop over moves from the move at index m on, with the
\* alpha, beta and bestScore the moves before it left.
RECURSIVE Minimax(_, _, _, _, _, _)
RECURSIVE MinimaxMoves(_, _, _, _, _, _, _, _)
Minimax(ctx, state, depth, isMaximizing, alpha, beta) ==
    IF ctx = "cancelled" THEN [score |-> Evaluate(state), timedOut |-> TRUE]
    ELSE IF depth = 0 \/ IsTerminal(state)
    THEN [score |-> Evaluate(state), timedOut |-> FALSE]
    ELSE MinimaxMoves(ctx, state, depth, isMaximizing, alpha, beta,
                      IF isMaximizing THEN MinScore ELSE MaxScore, 1)

MinimaxMoves(ctx, state, depth, isMaximizing, alpha, beta, bestScore, m) ==
    IF m \notin GetPossibleMoves(state) THEN [score |-> bestScore, timedOut |-> FALSE]
    ELSE LET r == Minimax(ctx, MakeMove(state, m), depth - 1, ~isMaximizing, alpha, beta)
         IN  IF r.timedOut THEN [score |-> 0, timedOut |-> TRUE]
             ELSE IF isMaximizing
             THEN LET best == max(bestScore, r.score)
                      a == max(alpha, best)
                  IN  IF CutOff(a, beta) THEN [score |-> best, timedOut |-> FALSE]
                      ELSE MinimaxMoves(ctx, state, depth, isMaximizing, a, beta, best, m + 1)
             ELSE LET best == min(bestScore, r.score)
                      b == min(beta, best)
                  IN  IF CutOff(alpha, b) THEN [score |-> best, timedOut |-> FALSE]
                      ELSE MinimaxMoves(ctx, state, depth, isMaximizing, alpha, b, best, m + 1)

-----------------------------------------------------------------------------
(* SpecMinimax: one call of Minimax on a game tree; call holds the arguments  *)
(* and result what the call returned                                          *)

Evals == 0..MaxEval

\* The sequences of at most two members of S.
UpToTwo(S) == {<<>>} \cup {<<a>> : a \in S} \cup {<<a, b>> : a \in S, b \in S}

\* The game trees of height at most 2 with at most two moves in a state.
Leaves == {GameState(v, <<>>) : v \in Evals}
LowTrees == {GameState(v, ms) : v \in Evals, ms \in UpToTwo(Leaves)}
SmallTrees == {GameState(v, ms) : v \in Evals, ms \in UpToTwo(LowTrees)}

\* The game trees of height 3 with two moves in every state but the leaves;
\* the states that are not leaves evaluate to 1.
Pair(S) == {GameState(1, <<a, b>>) : a \in S, b \in S}
DeepTrees == Pair(Pair(Pair(Leaves)))

\* The windows: that of TestMinimax, the tightest one around Evals, and one
\* inside Evals.
Windows == {<<-1000, 1000>>, <<-1, MaxEval + 1>>, <<1, 1>>}

MinimaxCalls ==
    [alg : {"Minimax"}, ctx : {"background"}, state : SmallTrees \cup DeepTrees,
     depth : 0..MaxDepth, isMaximizing : BOOLEAN, window : Windows]
        \cup [alg : {"Minimax"}, ctx : {"cancelled"}, state : LowTrees,
              depth : {MaxDepth}, isMaximizing : BOOLEAN, window : Windows]

NoScore == [score |-> 0, timedOut |-> FALSE]

InitMinimax ==
    /\ Nodes = EmptyMap
    /\ Edges = EmptyMap
    /\ Name = "minimax"
    /\ IsDirected = FALSE
    /\ pc = "call"
    /\ call \in MinimaxCalls
    /\ result = NoScore
    /\ prev = NoScore
    /\ visited = {}
    /\ frontier = <<>>
    /\ pqueue = <<>>
    /\ node = NoParent
    /\ todo = {}
    /\ fresh = FALSE

MinimaxCall ==
    /\ pc = "call"
    /\ pc' = "done"
    /\ result' = Minimax(call.ctx, call.state, call.depth, call.isMaximizing,
                         call.window[1], call.window[2])
    /\ UNCHANGED <<Nodes, Edges, Name, IsDirected, call, visited, frontier, pqueue,
                   node, todo, prev, fresh>>

SpecMinimax == InitMinimax /\ [][MinimaxCall]_vars

-----------------------------------------------------------------------------
(* SpecQueue: a helpers.PriorityQueue on its own, under any sequence of       *)
(* PushItem and PopItem, PopItem called on a queue that is not empty; the     *)
(* queue is pqueue, and node holds the payload the last PopItem returned      *)

\* What PushItem is given: a payload and a priority.
Payloads == Keys
Priorities == 0..MaxWeight

\* helpers.New: an empty queue; no graph takes part.
InitQueue ==
    /\ Nodes = EmptyMap
    /\ Edges = EmptyMap
    /\ Name = "pq"
    /\ IsDirected = FALSE
    /\ InitSearch

PushItemCall(value, priority) ==
    /\ Len(pqueue) < MaxQueue
    /\ pqueue' = PushItem(pqueue, value, priority)
    /\ UNCHANGED <<Nodes, Edges, Name, IsDirected, pc, call, visited, frontier, node,
                   todo, result, prev, fresh>>

PopItemCall ==
    /\ Len(pqueue) > 0
    /\ node' = PopValue(pqueue)
    /\ pqueue' = PopAfter(pqueue)
    /\ UNCHANGED <<Nodes, Edges, Name, IsDirected, pc, call, visited, frontier,
                   todo, result, prev, fresh>>

NextQueue ==
    \/ \E value \in Payloads, priority \in Priorities : PushItemCall(value, priority)
    \/ PopItemCall

SpecQueue == InitQueue /\ [][NextQueue]_vars

-----------------------------------------------------------------------------
(* Properties *)

\* C1: in every state reachable from New or NewGraphFromMatrix by AddNode,
\* RemoveNode, AddEdge, RemoveEdge, ResetNodes and the searches, every entry
\* Edges[u][v] has both u and v as keys of Nodes.
EdgeEndpointsInNodes ==
    \A u \in DOMAIN Edges : \A v \in DOMAIN Edges[u] :
        u \in DOMAIN Nodes /\ v \in DOMAIN Nodes

\* An imported graph that has lost a node, still has edges, and has been
\* searched with success.
EdgeEndpointsWitness ==
    /\ Name = "grid"
    /\ \E k \in Keys : k \notin DOMAIN Nodes
    /\ LengthEdges(Edges) > 0
    /\ pc = "done"
    /\ result.err = ErrNone
    /\ Len(result.path) = 2

\* In an undirected graph Edges[u][v] exists if and only if Edges[v][u] exists,
\* and then both hold the same weight.
MirroredEdges ==
    ~IsDirected =>
        \A u \in Keys, v \in Keys :
            /\ v \in Adj(Edges, u) <=> u \in Adj(Edges, v)
            /\ v \in Adj(Edges, u) => Edges[u][v] = Edges[v][u]

\* Right after AddEdge(u, v, w) on an undirected graph with both endpoints
\* present, GetEdgeWeight(u, v) = GetEdgeWeight(v, u) = w.
AddEdgeMirrors ==
    \A u \in Keys, v \in Keys, w \in WeightInputs :
        (~IsDirected /\ ContainsNode(Nodes, u) /\ ContainsNode(Nodes, v) /\ AddEdge(u, v, w))
            => GetEdgeWeight(Edges', u, v) = w /\ GetEdgeWeight(Edges', v, u) = w

RemoveNodePost(k) ==
    /\ ~ContainsNode(Nodes', k)
    /\ k \notin DOMAIN Edges'
    /\ \A e \in DOMAIN Edges' : k \notin DOMAIN Edges'[e]
    /\ \A j \in Keys \ {k} :
        /\ ContainsNode(Nodes', j) <=> ContainsNode(Nodes, j)
        /\ ContainsNode(Nodes, j) => Nodes'[j] = Nodes[j]
    /\ \A u \in Keys \ {k}, v \in Keys \ {k} :
        GetEdgeWeight(Edges', u, v) = GetEdgeWeight(Edges, u, v)
    /\ ~ContainsNode(Nodes, k) => Nodes' = Nodes /\ Edges' = Edges

\* C3: after RemoveNode(k), on a directed or an undirected graph,
\* ContainsNode(k) is false, Edges has no inner map for k and no inner map
\* holds k; every other node and every edge between two other nodes is as
\* before; RemoveNode(k) of an absent k changes nothing.
RemoveNodeRemoves == [][\A k \in Keys : RemoveNode(k) => RemoveNodePost(k)]_vars

\* An imported graph of three cells after RemoveNode of its first cell: the
\* edge between the other two is still there, in both directions.
RemoveNodeWitness ==
    /\ Name = "grid"
    /\ DOMAIN Nodes = {<<0, 1>>, <<0, 2>>}
    /\ LengthEdges(Edges) = 2

\* The last search returned, and was called right after ResetNodes with start
\* and end two different keys of Nodes.
Searched(alg) ==
    /\ pc = "done"
    /\ result.call.alg = alg
    /\ result.call.afterReset
    /\ result.call.start # result.call.end
    /\ ContainsNode(Nodes, result.call.start)
    /\ ContainsNode(Nodes, result.call.end)

EndReachable == Reachable(Nodes, Edges, result.call.start, result.call.end)

ReturnsPath ==
    /\ result.err = ErrNone
    /\ IsPath(Edges, result.path, result.call.start, result.call.end)

\* C4: called right after ResetNodes with start and end two different keys of
\* Nodes and end reachable, Dijkstra returns a path whose total weight is the
\* least total weight of a path from start to end, whatever the order the
\* adjacency maps are enumerated in.
DijkstraLeastWeight ==
    /\ (Searched("Dijkstra") /\ EndReachable) =>
        /\ ReturnsPath
        /\ PathWeight(Edges, result.path) =
               MinWeight(Nodes, Edges, result.call.start, result.call.end)
    /\ pc \in {"panic", "hang"} => call.alg # "Dijkstra"

\* Dijkstra has returned a path of more edges than the graph distance: the
\* relaxation has replaced a direct edge by a lighter detour.
DijkstraWitness ==
    /\ Searched("Dijkstra")
    /\ result.err = ErrNone
    /\ Len(result.path) - 1 >
           GraphDistance(Nodes, Edges, result.call.start, result.call.end)

\* C8: called right after ResetNodes with start and end two different keys of
\* Nodes and end reachable, BFS returns a path whose number of edges is the
\* graph distance from start to end, for every enumeration order and whatever
\* the weights.
BFSLeastEdges ==
    /\ (Searched("BFS") /\ EndReachable) =>
        /\ ReturnsPath
        /\ Len(result.path) - 1 =
               GraphDistance(Nodes, Edges, result.call.start, result.call.end)
    /\ pc \in {"panic", "hang"} => call.alg # "BFS"

\* BFS has returned a path of two edges on an imported graph that has a
\* lighter path (of more edges).
BFSWitness ==
    /\ Searched("BFS")
    /\ Name = "grid"
    /\ result.err = ErrNone
    /\ Len(result.path) = 3
    /\ PathWeight(Edges, result.path) >
           MinWeight(Nodes, Edges, result.call.start, result.call.end)

\* C9: for each of the four searches, called right after ResetNodes with start
\* and end two different keys of Nodes: the call returns the error `no path
\* found` if and only if end is not reachable from start, and a path with a
\* nil error when it is.
NoPathIffUnreachable ==
    \A alg \in Algs :
        Searched(alg) =>
            /\ result.err = ErrNoPath <=> ~EndReachable
            /\ EndReachable => ReturnsPath
            /\ result.err = ErrNoPath => result.path = Nil

\* DFS has explored the neighbours of start and returned `no path found`.
NoPathWitness ==
    /\ Searched("DFS")
    /\ result.err = ErrNoPath
    /\ Adj(Edges, result.call.start) # {}

\* No key occurs twice in path.
NoKeyTwice(path) == \A i \in 1..Len(path), j \in 1..Len(path) : i # j => path[i] # path[j]

\* C11: for each of the four searches, when a call made right after
\* ResetNodes succeeds, the path it returns starts at start, ends at end,
\* follows an edge of Edges from each key to the next, and holds no key twice.
ReturnedPathIsSimple ==
    (pc = "done" /\ result.call.afterReset /\ result.err = ErrNone) =>
        /\ IsPath(Edges, result.path, result.call.start, result.call.end)
        /\ NoKeyTwice(result.path)

\* DFS has returned a path of four edges around an imported grid whose start
\* and end are two edges apart.
ReturnedPathWitness ==
    /\ Searched("DFS")
    /\ Name = "grid"
    /\ result.err = ErrNone
    /\ Len(result.path) = 5
    /\ GraphDistance(Nodes, Edges, result.call.start, result.call.end) = 2

\* C13: on a finite graph, with ResetNodes called right before, every call of
\* BFS, DFS, Dijkstra and AStar comes to its return (of a path or of an
\* error), whatever order the adjacency maps are enumerated in: a search that
\* is in its loops neither panics nor runs for ever.
EverySearchReturns == (pc \in {"loop", "range"}) ~> (pc = "done")

\* AStar has returned after visiting the four keys of an imported grid.
EverySearchReturnsWitness ==
    /\ Searched("AStar")
    /\ Name = "grid"
    /\ result.err = ErrNone
    /\ Len(result.visited) = 4

\* C10: for each of the four searches and every pair (start, end), start = end
\* included: if start or end is not a key of Nodes when the call is made, the
\* call returns the error `start or end node not in graph` and no path.
AbsentNodeNotFound ==
    (pc = "done" /\ (~ContainsNode(Nodes, result.call.start)
                        \/ ~ContainsNode(Nodes, result.call.end)))
        => result.err = ErrNodeNotFound /\ result.path = Nil

\* The caller holds the path and visited list of a Dijkstra call and of the
\* AStar call that followed it, both made right after ResetNodes with the same
\* start and end on the same graph, both successful, the heuristic of the AStar
\* call admissible and consistent.
DijkstraThenAStar ==
    /\ pc = "done"
    /\ prev.call.alg = "Dijkstra"
    /\ result.call.alg = "AStar"
    /\ prev.call.afterReset
    /\ result.call.afterReset
    /\ prev.call.start = result.call.start
    /\ prev.call.end = result.call.end
    /\ result.call.start # result.call.end
    /\ prev.err = ErrNone
    /\ result.err = ErrNone
    /\ Admissible(Nodes, Edges, result.call.h, result.call.end)
    /\ Consistent(Nodes, Edges, result.call.h, result.call.end)

\* The caller holds what two calls of the same search returned, made with the
\* same start, end and heuristic on the same graph, each right after
\* ResetNodes.
SameSearchTwice ==
    /\ pc = "done"
    /\ prev.call.alg \in Algs
    /\ prev.call.afterReset
    /\ result.call = prev.call

\* The keys of a returned slice.
KeysOf(slice) == {slice[i] : i \in 1..Len(slice)}

\* C12: for each of the four searches, the search, ResetNodes and the same
\* search again on the unmodified graph return the same path and the same
\* set of visited keys.
SearchIdempotent ==
    SameSearchTwice =>
        /\ result.path = prev.path
        /\ KeysOf(result.visited) = KeysOf(prev.visited)

\* C5: with an admissible and consistent heuristic and ResetNodes before each
\* call, the path AStar returns has the same total weight as the path
\* Dijkstra returns on the same graph, start and end.
AStarWeightIsDijkstraWeight ==
    DijkstraThenAStar =>
        PathWeight(Edges, result.path) = PathWeight(Edges, prev.path)

\* C6: with an admissible and consistent heuristic, ResetNodes before each
\* call and end reachable, the visited list AStar returns has at most as many
\* keys as the visited list Dijkstra returns on the same graph.
AStarVisitsNoMore ==
    DijkstraThenAStar => Len(result.visited) <= Len(prev.visited)

\* C7: with an admissible and consistent heuristic, ResetNodes before each
\* call and end reachable from a different start, the visited list AStar
\* returns is strictly smaller than the one Dijkstra returns.
AStarVisitsFewer ==
    DijkstraThenAStar => Len(result.visited) < Len(prev.visited)

\* matrix has a row, and all its rows have the length of the first.
Rectangular(matrix) ==
    /\ Len(matrix) > 0
    /\ \A i \in 1..Len(matrix) : Len(matrix[i]) = Len(matrix[1])

\* The coordinates of the cells of a rectangular matrix.
CellsOf(matrix) ==
    {<<i, j>> : i \in 0..(Len(matrix) - 1), j \in 0..(Len(matrix[1]) - 1)}

Abs(n) == IF n < 0 THEN -n ELSE n

\* u and v are neighbours: in the 4-neighbourhood, or in the 8-neighbourhood
\* when allowDiagonal.
Adjacent(u, v, allowDiagonal) ==
    LET di == Abs(u[1] - v[1])
        dj == Abs(u[2] - v[2])
    IN  di + dj = 1 \/ (allowDiagonal /\ di = 1 /\ dj = 1)

\* u comes before v in row-major order: each unordered pair of distinct cells
\* is ordered this way exactly once.
Before(u, v) == u[1] < v[1] \/ (u[1] = v[1] /\ u[2] < v[2])

Traversable(matrix, u) == Cell(matrix, u[1], u[2]) # Sentinel

\* The caller holds the graph NewGraphFromMatrix returned for a rectangular
\* matrix.
ImportedRect == Imported /\ Rectangular(prev.call.matrix)

ImportedWeightIsDestination ==
    ImportedRect =>
        \A u \in DOMAIN Edges : \A v \in DOMAIN Edges[u] :
            GetEdgeWeight(Edges, u, v) = Cell(prev.call.matrix, v[1], v[2])

\* C16: NewGraphFromMatrix given an empty matrix or a matrix with rows of
\* unequal length surfaces a failure to its caller: it neither panics nor
\* returns a graph without an error.
InvalidMatrixRejected ==
    /\ ~(pc = "panic" /\ call.alg = "NewGraphFromMatrix")
    /\ (Imported /\ ~Rectangular(prev.call.matrix)) => prev.err # ErrNone

\* BFS has returned from its call on the scenario: the 5 x 5 matrix imported
\* with orthogonal adjacency, ResetNodes, then BFS from (0, 0) to (4, 4).
ScenarioBFS ==
    /\ pc = "done"
    /\ Imported
    /\ prev.call.matrix = ScenarioMatrix
    /\ ~prev.call.allowDiagonal
    /\ result.call.alg = "BFS"
    /\ result.call.afterReset
    /\ result.call.start = <<0, 0>>
    /\ result.call.end = <<4, 4>>

HasEntry(E, u, v) == u \in DOMAIN E /\ v \in DOMAIN E[u]

BothPresent(k1, k2) == ContainsNode(Nodes, k1) /\ ContainsNode(Nodes, k2)

\* C18: AddEdge(u, v, w) with u or v not a key of Nodes changes nothing, on a
\* directed or an undirected graph: Nodes and Edges, the set of source keys of
\* Edges included, are as before the call.
AddEdgeAbsentIsNoOp ==
    [][\A p \in EdgeInputs, w \in WeightInputs :
          (AddEdge(p[1], p[2], w) /\ ~BothPresent(p[1], p[2])) =>
              /\ Nodes' = Nodes
              /\ DOMAIN Edges' = DOMAIN Edges
              /\ Edges' = Edges]_vars

\* After API calls on a directed graph, one key is absent while the two others
\* are linked: AddEdge to the absent key can be called.
AddEdgeAbsentWitness ==
    /\ ~fresh
    /\ IsDirected
    /\ DOMAIN Nodes = {<<0, 0>>, <<0, 1>>}
    /\ HasEntry(Edges, <<0, 0>>, <<0, 1>>)
    /\ ~HasEntry(Edges, <<0, 1>>, <<0, 0>>)

\* The entries AddEdge(k1, k2, w) writes.
Written(directed, k1, k2) ==
    {<<k1, k2>>} \cup (IF directed THEN {} ELSE {<<k2, k1>>})

AddEdgePost(k1, k2, w) ==
    /\ GetEdgeWeight(Edges', k1, k2) = w
    /\ HasEntry(Edges', k1, k2)
    /\ ~IsDirected => GetEdgeWeight(Edges', k2, k1) = w /\ HasEntry(Edges', k2, k1)
    /\ (\A q \in Written(IsDirected, k1, k2) : HasEntry(Edges, q[1], q[2])) =>
           LengthEdges(Edges') = LengthEdges(Edges)
    /\ \A q \in (Keys \X Keys) \ Written(IsDirected, k1, k2) :
           /\ HasEntry(Edges', q[1], q[2]) <=> HasEntry(Edges, q[1], q[2])
           /\ GetEdgeWeight(Edges', q[1], q[2]) = GetEdgeWeight(Edges, q[1], q[2])
    /\ Nodes' = Nodes

AddNodePost(k) ==
    /\ ContainsNode(Nodes', k)
    /\ ContainsNode(Nodes, k) =>
           /\ Nodes'[k].Value = Nodes[k].Value
           /\ Nodes'[k].CurrentCost = Nodes[k].CurrentCost
           /\ Nodes'[k].Parent = Nodes[k].Parent
           /\ Nodes' = Nodes
           /\ Edges' = Edges
           /\ LengthNodes(Nodes') = LengthNodes(Nodes)

\* C20: AddNode(k, v) makes ContainsNode(k) true; when k is already present
\* the call changes nothing: the node's Value, CurrentCost and Parent, the
\* edges at k and LengthNodes are as before.
AddNodeInsertsOnce ==
    [][\A k \in Keys, v \in ValueInputs : AddNode(k, v) => AddNodePost(k)]_vars

\* After a search and a further API call, all three keys are nodes and one of
\* them still has the Parent and the CurrentCost the search gave it.
AddNodeWitness ==
    /\ pc = "idle"
    /\ ~fresh
    /\ LengthNodes(Nodes) = 3
    /\ \E k \in DOMAIN Nodes : Nodes[k].Parent # NoParent /\ Nodes[k].CurrentCost > 0

RemoveEdgePost(k1, k2) ==
    /\ ~ContainsEdge(Edges', IsDirected, k1, k2)
    /\ \A q \in Written(IsDirected, k1, k2) : ~HasEntry(Edges', q[1], q[2])
    /\ Nodes' = Nodes
    /\ \A q \in (Keys \X Keys) \ Written(IsDirected, k1, k2) :
           /\ HasEntry(Edges', q[1], q[2]) <=> HasEntry(Edges, q[1], q[2])
           /\ GetEdgeWeight(Edges', q[1], q[2]) = GetEdgeWeight(Edges, q[1], q[2])
    /\ (\A q \in Written(IsDirected, k1, k2) : ~HasEntry(Edges, q[1], q[2])) =>
           Edges' = Edges
    /\ (IsDirected /\ k1 # k2 /\ HasEntry(Edges, k2, k1)) => HasEntry(Edges', k2, k1)

\* C21: RemoveEdge(u, v) removes the entry u -> v, and v -> u on an undirected
\* graph, and nothing else: ContainsEdge(u, v) is false afterwards, Nodes and
\* every other edge are as before, no edge changes when the entries were
\* absent, and on a directed graph v -> u stays.
RemoveEdgeRemoves ==
    [][\A p \in EdgeInputs : RemoveEdge(p[1], p[2]) => RemoveEdgePost(p[1], p[2])]_vars

\* A directed graph made by New after a RemoveEdge: the first key has an inner
\* map with no entry left, and the edge from the second key to the first is
\* there.
RemoveEdgeWitness ==
    /\ Name = "g"
    /\ IsDirected
    /\ <<0, 0>> \in DOMAIN Edges
    /\ DOMAIN Edges[<<0, 0>>] = {}
    /\ HasEntry(Edges, <<0, 1>>, <<0, 0>>)

ResetNodesPost ==
    /\ DOMAIN Nodes' = DOMAIN Nodes
    /\ \A k \in DOMAIN Nodes :
           /\ Nodes'[k].CurrentCost = 0
           /\ Nodes'[k].Parent = NoParent
           /\ Nodes'[k].Value = Nodes[k].Value
           /\ Nodes'[k].Key = Nodes[k].Key
    /\ Edges' = Edges

\* C22: after ResetNodes, called in any reachable state, after any number of
\* searches, every node has CurrentCost 0 and no Parent; the keys of Nodes,
\* every node's Value and all of Edges are as before.
ResetNodesResets == [][ResetNodes => ResetNodesPost]_vars

\* ResetNodes was the last call, after a Dijkstra that returned a path of
\* three keys: no node holds the cost or the parent the search gave it.
ResetNodesWitness ==
    /\ fresh
    /\ prev.call.alg = "Dijkstra"
    /\ prev.err = ErrNone
    /\ Len(prev.path) = 3
    /\ \A k \in DOMAIN Nodes : Nodes[k].CurrentCost = 0 /\ Nodes[k].Parent = NoParent

\* How many entries of pq are the item x.
CountOf(pq, x) == Cardinality({i \in 1..Len(pq) : pq[i] = x})

ItemsOf(pq) == {pq[i] : i \in 1..Len(pq)}

\* PopItem returned the payload of the entry at i, an entry of least priority,
\* and took that one entry off.
PopItemTook(i) ==
    /\ node' = pqueue[i].Value
    /\ \A j \in 1..Len(pqueue) : pqueue[i].Priority <= pqueue[j].Priority
    /\ \A x \in ItemsOf(pqueue) \cup ItemsOf(pqueue') :
           CountOf(pqueue', x) = CountOf(pqueue, x) - (IF x = pqueue[i] THEN 1 ELSE 0)
    /\ Len(pqueue') = Len(pqueue) - 1

RECURSIVE PlainMinimax(_, _, _)
PlainMinimax(state, depth, isMaximizing) ==
    IF depth = 0 \/ IsTerminal(state) THEN Evaluate(state)
    ELSE LET scores == {PlainMinimax(MakeMove(state, m), depth - 1, ~isMaximizing) :
                            m \in GetPossibleMoves(state)}
         IN  IF isMaximizing
             THEN CHOOSE x \in scores : \A y \in scores : y <= x
             ELSE CHOOSE x \in scores : \A y \in scores : x <= y

\* The evaluations of the states within depth moves of state.
RECURSIVE EvalsWithin(_, _)
EvalsWithin(state, depth) ==
    {Evaluate(state)} \cup
        (IF depth = 0 THEN {}
         ELSE UNION {EvalsWithin(MakeMove(state, m), depth - 1) :
                         m \in GetPossibleMoves(state)})

\* Minimax has returned from a call with a context that is never cancelled
\* and a window with alpha below and beta above every evaluation within depth.
MinimaxReturned ==
    /\ pc = "done"
    /\ call.alg = "Minimax"
    /\ call.ctx = "background"
    /\ \A e \in EvalsWithin(call.state, call.depth) :
           call.window[1] < e /\ e < call.window[2]

\* C24: with a context that is never cancelled and a window with alpha below
\* and beta above every evaluation reachable within depth, Minimax returns
\* timedOut = false and the score of depth-limited minimax without pruning on
\* the same game tree.
MinimaxIsPlainMinimax ==
    MinimaxReturned =>
        /\ ~result.timedOut
        /\ result.score = PlainMinimax(call.state, call.depth, call.isMaximizing)

\* The call of TestMinimax has returned: two moves, then one, then none, the
\* evaluation one more after each move, depth 3, the maximizing player, the
\* window -1000 .. 1000; the score is 2.
MinimaxWitness ==
    /\ MinimaxReturned
    /\ call.state = GameState(0, << GameState(1, << GameState(2, <<>>) >>),
                                    GameState(1, << GameState(2, <<>>) >>) >>)
    /\ call.depth = 3
    /\ call.isMaximizing
    /\ call.window = <<-1000, 1000>>
    /\ result.score = 2

\* Dijkstra or AStar is running.
QueueSearchRuns == pc \in {"loop", "range"} /\ UsesQueue(call.alg)

\* The entry PopItem is about to return holds a key that is visited already.
StaleAtRoot ==
    /\ pc = "loop"
    /\ UsesQueue(call.alg)
    /\ Len(pqueue) > 0
    /\ PopValue(pqueue) \in visited

VisitedOnceStep ==
    /\ pc' \in {"loop", "range"} => visited \subseteq visited'
    /\ \A k \in visited :
           /\ Nodes'[k].CurrentCost = Nodes[k].CurrentCost
           /\ Nodes'[k].Parent = Nodes[k].Parent
    /\ StaleAtRoot =>
           /\ pc' = "loop"
           /\ todo' = {}
           /\ visited' = visited
           /\ Nodes' = Nodes
           /\ Len(pqueue') = Len(pqueue) - 1
    /\ (pc = "loop" /\ ~StaleAtRoot /\ Len(pqueue) > 0 /\ pc' \in {"loop", "range"}) =>
           /\ visited' = visited \cup {PopValue(pqueue)}
           /\ PopValue(pqueue) \notin visited

\* C25: within one call of Dijkstra or AStar, a key is added to visited at
\* most once: a popped entry whose key is visited is discarded, its neighbours
\* not ranged over, and the CurrentCost and the Parent of a visited node are
\* not written again during the call.
VisitedOnce == [][QueueSearchRuns => VisitedOnceStep]_vars

\* Dijkstra, called after ResetNodes on an imported graph, is about to pop an
\* entry whose key is visited: the key was pushed a second time, at a lower
\* cost, and popped at that cost before.
VisitedOnceWitness ==
    /\ StaleAtRoot
    /\ call.alg = "Dijkstra"
    /\ call.afterReset
    /\ Name = "grid"
    /\ Nodes[PopValue(pqueue)].CurrentCost < pqueue[1].Priority

\* The sum of the edge weights along the Parent chain of k, back to the node
\* without Parent; fuel bounds the walk.
RECURSIVE ChainCost(_, _, _, _)
ChainCost(N, E, k, fuel) ==
    IF N[k].Parent = NoParent \/ fuel = 0 THEN 0
    ELSE ChainCost(N, E, N[k].Parent, fuel - 1) + GetEdgeWeight(E, N[k].Parent, k)

\* The AStar call that is running, or that returned last.
AStarCall ==
    IF pc \in {"loop", "range"} THEN call ELSE IF pc = "done" THEN result.call ELSE NoCall

\* C26: during and after an AStar call made after ResetNodes, the CurrentCost
\* of every discovered node is the sum of the edge weights along its Parent
\* chain back to start; the heuristic is in the priority of the queue entry
\* only, never in CurrentCost.
AStarCostIsCumulative ==
    (AStarCall.alg = "AStar" /\ AStarCall.afterReset /\ AStarCall.start # AStarCall.end) =>
        \A k \in DOMAIN Nodes :
            (Nodes[k].Parent # NoParent \/ k = AStarCall.start) =>
                Nodes[k].CurrentCost = ChainCost(Nodes, Edges, k, Cardinality(DOMAIN Nodes))

\* The step is a step of a search: its call, a pass of its loops, its return.
SearchStep == pc' # "idle"

\* The step is a call that returns at once: start = end, or a key that is not
\* in Nodes.
ReturnsAtOnce ==
    /\ pc \in {"idle", "done"}
    /\ pc' = "done"
    /\ \/ result'.err = ErrNodeNotFound
       \/ result'.call.start = result'.call.end

SearchFrame ==
    /\ DOMAIN Nodes' = DOMAIN Nodes
    /\ \A k \in DOMAIN Nodes :
           /\ Nodes'[k].Value = Nodes[k].Value
           /\ Nodes'[k].Key = Nodes[k].Key
    /\ Edges' = Edges
    /\ Name' = Name
    /\ IsDirected' = IsDirected
    /\ ReturnsAtOnce => Nodes' = Nodes

\* C27: every call of BFS, DFS, Dijkstra or AStar, whether it succeeds or
\* fails, leaves the keys of Nodes, every node's Value, all of Edges, Name and
\* IsDirected as they were: a search writes CurrentCost and Parent only, and a
\* call that returns `start or end node not in graph`, or the path of one key
\* for start = end, writes nothing.
SearchWritesScratchOnly == [][SearchStep => SearchFrame]_vars

\* A search that was called without ResetNodes before it has failed on an
\* imported graph, leaving a Parent and a CurrentCost behind.
SearchFrameWitness ==
    /\ pc = "done"
    /\ ~result.call.afterReset
    /\ result.err = ErrNoPath
    /\ \E k \in DOMAIN Nodes :
           Nodes[k].Parent # NoParent /\ Nodes[k].CurrentCost > 0 /\ Nodes[k].Value = 2

\* C28: under any sequence of calls of BFS, DFS, Dijkstra and AStar on one
\* graph, also without ResetNodes between them, path reconstruction in a call
\* that found its end stops at the node whose key is the call's start: the
\* call returns, and the first key of its path is start.
PathStartsAtStart ==
    /\ pc \notin {"hang", "panic"}
    /\ (pc = "done" /\ result.err = ErrNone) => Head(result.path) = result.call.start

\* C29: in every state reachable by AddNode, RemoveNode, AddEdge, RemoveEdge,
\* ResetNodes and the searches, in any order, the Parent of each node is none
\* or a node that is in Nodes under its own Key: RemoveNode(k) leaves no node
\* whose Parent is the node removed.
ParentIsPresent ==
    \A k \in DOMAIN Nodes :
        Nodes[k].Parent # NoParent =>
            /\ ContainsNode(Nodes, Nodes[k].Parent)
            /\ Nodes[Nodes[k].Parent].Key = Nodes[k].Parent

\* The keys that can be reached from a key of S along the edges of E, the
\* keys of S included.
RECURSIVE ReachedFrom(_, _)
ReachedFrom(E, S) ==
    LET T == S \cup UNION {Adj(E, k) : k \in S}
    IN  IF T = S THEN S ELSE ReachedFrom(E, T)

\* C30: for each of the four searches, when a call made right after
\* ResetNodes succeeds, the visited list it returns holds no key twice, holds
\* start, end and every key of the returned path, and holds only keys that
\* can be reached from start along the edges of Edges.
VisitedListIsSound ==
    (pc = "done" /\ result.call.afterReset /\ result.err = ErrNone) =>
        /\ NoKeyTwice(result.visited)
        /\ result.call.start \in KeysOf(result.visited)
        /\ result.call.end \in KeysOf(result.visited)
        /\ KeysOf(result.path) \subseteq KeysOf(result.visited)
        /\ KeysOf(result.visited) \subseteq ReachedFrom(Edges, {result.call.start})

\* Dijkstra has returned a path of three keys and a visited list of three, on
\* an imported graph in which a cell cannot be reached from the start.
VisitedListWitness ==
    /\ Searched("Dijkstra")
    /\ Name = "grid"
    /\ result.err = ErrNone
    /\ Len(result.path) = 3
    /\ Len(result.visited) = 3
    /\ \E k \in DOMAIN Nodes : k \notin ReachedFrom(Edges, {result.call.start})

====
